---- MODULE Spec2Model ----
(***************************************************************************)
(* py-cashier: the key builder (py_cashier/main.py, py_cashier/key.py) and  *)
(* the cache decorator (py_cashier/main.py) as a state machine.             *)
(*                                                                         *)
(* Python values are records [ty, lit]: an int 1 is [ty |-> "int",          *)
(* lit |-> "1"], the str "1" is [ty |-> "str", lit |-> "1"].  Keys are real *)
(* strings, assembled with \o exactly as the f-strings and "/".join do.     *)
(***************************************************************************)
EXTENDS Integers, Sequences, FiniteSets, TLC

VARIABLES
    kbs,      \* the DefaultKeyBuilder objects constructed directly, by slot
    apps,     \* the build_key calls made directly on them, by slot
    wrapped,  \* per decorated callable: what cache() returned for it
    mapa,     \* per decorated callable: _wrapper's TTLMap, key -> [val, exp]
    now,      \* the clock, in ticks
    pc,       \* per thread: position inside wrapper()
    target,   \* per thread: the decorated callable being called
    args,     \* per thread: the call's (*args, **kwargs)
    key,      \* per thread: the local `key`
    res,      \* per thread: the local `res`
    outcome,  \* per thread: "return" or "raise" once the call has ended
    invoked,  \* per thread: this call has invoked the underlying callable
    at,       \* per thread: the tick at which the result of this call was produced
    prev,     \* the last call that ended, as its caller saw it
    ninv,     \* number of invocations of the underlying callables so far
    computed  \* history: <<callable, key, value>> for each invocation that returned a value

vars == <<kbs, apps, wrapped, mapa, now, pc, target, args, key, res, outcome, invoked, at, prev, ninv, computed>>
keyVars == <<kbs, apps>>
wrapVars == <<wrapped, mapa, now, pc, target, args, key, res, outcome, invoked, at, prev, ninv, computed>>

----------------------------------------------------------------------------
(* Python values and the key serializers (py_cashier/key.py)               *)

PyInt(lit) == [ty |-> "int", lit |-> lit]
PyStr(lit) == [ty |-> "str", lit |-> lit]

\* The argument values calls are made with, per parameter.
ValuesOf(name) ==
    CASE name = "a" -> {PyInt("1"), PyInt("2"), PyStr("1")}
      [] name = "b" -> {PyInt("2")}
      [] name = "c" -> {PyInt("3"), PyInt("5")}
      [] OTHER -> {PyInt("1")}

\* StrKeySerializer.to_str: str(value)
StrKeySerializer_to_str(value) == value.lit

\* a serializer that writes a str without its quotes
ReprKeySerializer_to_str_Unquoted(value) == value.lit

\* ReprKeySerializer.to_str: repr(value); a str is quoted, an int is not
ReprKeySerializer_to_str(value) ==
    IF value.ty = "str" THEN "'" \o value.lit \o "'" ELSE value.lit

Serializers == {"StrKeySerializer", "ReprKeySerializer"}

to_str(key_serializer, value) ==
    IF key_serializer = "StrKeySerializer"
    THEN StrKeySerializer_to_str(value)
    ELSE ReprKeySerializer_to_str(value)

----------------------------------------------------------------------------
(* Callables: what inspect reports about them                              *)

\* def f(a, b, c=1) and def g(a, b, c=1) live in one source file, h in another;
\* k has a keyword-only parameter; co is a coroutine function; u has the one
\* parameter a; v is def v(a, *rest).
\* varargs: the callable declares *args, which getfullargspec reports apart
\* from args.
Func(name, file, fargs, varargs, kwonly, ndefaults, coroutine) ==
    [name |-> name, file |-> file, args |-> fargs, varargs |-> varargs,
     kwonlyargs |-> kwonly, ndefaults |-> ndefaults, coroutine |-> coroutine]

func_f == Func("f", "/app/svc.py", <<"a", "b", "c">>, FALSE, <<>>, 1, FALSE)
func_g == Func("g", "/app/svc.py", <<"a", "b", "c">>, FALSE, <<>>, 1, FALSE)
func_h == Func("h", "/app/lib.py", <<"a", "b", "c">>, FALSE, <<>>, 1, FALSE)
func_k == Func("k", "/app/lib.py", <<"a">>, FALSE, <<"o">>, 0, FALSE)
func_co == Func("co", "/app/svc.py", <<"a", "b", "c">>, FALSE, <<>>, 1, TRUE)
func_u == Func("u", "/app/svc.py", <<"a">>, FALSE, <<>>, 0, FALSE)
func_v == Func("v", "/app/lib.py", <<"a">>, TRUE, <<>>, 0, FALSE)

Range(s) == {s[i] : i \in DOMAIN s}

\* inspect.getfile(func)
getfile(func) == func.file

----------------------------------------------------------------------------
(* DefaultKeyBuilder (py_cashier/main.py)                                  *)

\* cache_by_args is None, or a tuple of names
None == [given |-> FALSE, names |-> <<>>]
Tuple(names) == [given |-> TRUE, names |-> names]

\* get_args without its first check: an empty tuple falls through `or` to all names
get_args_NoEmptyCheck(include_args, func) ==
    LET arg_names == Range(func.args) \cup Range(func.kwonlyargs)
        include_args_set ==
            IF include_args.given /\ Len(include_args.names) > 0
            THEN Range(include_args.names) ELSE arg_names
    IN  IF ~(include_args_set \subseteq arg_names)
        THEN [err |-> "ValueError", included_args |-> <<>>, included_kwargs |-> {}]
        ELSE [err |-> "",
              included_args |->
                  [i \in DOMAIN func.args |-> <<func.args[i], func.args[i] \in include_args_set>>],
              included_kwargs |-> include_args_set]

\* get_args: ValueError for an empty tuple or an unknown name, else
\* ((name, included) for each positional parameter, the included names)
get_args(include_args, func) ==
    LET arg_names == Range(func.args) \cup Range(func.kwonlyargs)
        include_args_set ==
            IF include_args.given /\ Len(include_args.names) > 0
            THEN Range(include_args.names) ELSE arg_names
    IN  IF include_args.given /\ Len(include_args.names) = 0
        THEN [err |-> "ValueError", included_args |-> <<>>, included_kwargs |-> {}]
        ELSE IF ~(include_args_set \subseteq arg_names)
        THEN [err |-> "ValueError", included_args |-> <<>>, included_kwargs |-> {}]
        ELSE [err |-> "",
              included_args |->
                  [i \in DOMAIN func.args |-> <<func.args[i], func.args[i] \in include_args_set>>],
              included_kwargs |-> include_args_set]

\* DefaultKeyBuilder.__init__: the object's fields, or the error it raised
DefaultKeyBuilder(prefix, func, cache_by_args, key_serializer) ==
    LET ga == get_args(cache_by_args, func)
    IN  [err |-> ga.err,
         key_serializer |-> key_serializer,
         prefix |-> prefix \o "/" \o getfile(func),
         included_args |-> ga.included_args,
         included_kwargs |-> ga.included_kwargs]

RECURSIVE Join(_, _)
\* sep.join(frags)
Join(frags, sep) ==
    IF Len(frags) = 0 THEN ""
    ELSE IF Len(frags) = 1 THEN frags[1]
    ELSE frags[1] \o sep \o Join(Tail(frags), sep)

RECURSIVE PosFragments_All(_, _, _)
\* PosFragments without the `if self._included_args[i][1]` filter
PosFragments_All(self, pos, i) ==
    IF i > Len(pos) THEN <<>>
    ELSE <<to_str(self.key_serializer, pos[i])>> \o PosFragments_All(self, pos, i + 1)

RECURSIVE PosFragments(_, _, _)
\* the first generator of build_key: to_str(arg) for each positional argument
\* whose declared parameter is included
PosFragments(self, pos, i) ==
    IF i > Len(pos) THEN <<>>
    ELSE (IF self.included_args[i][2]
          THEN <<to_str(self.key_serializer, pos[i])>> ELSE <<>>)
         \o PosFragments(self, pos, i + 1)

RECURSIVE KwFragments(_, _, _)
\* the second generator of build_key: to_str(kwarg) for each keyword argument
\* whose name is included; kwarg is the argument's NAME (a str), value is unused
KwFragments(self, kw, i) ==
    IF i > Len(kw) THEN <<>>
    ELSE (IF kw[i].name \in self.included_kwargs
          THEN <<to_str(self.key_serializer, PyStr(kw[i].name))>> ELSE <<>>)
         \o KwFragments(self, kw, i + 1)

\* build_key(*args, **kwargs): the key, or IndexError when a positional argument
\* has no entry in _included_args
build_key(self, call) ==
    IF Len(call.pos) > Len(self.included_args)
    THEN [err |-> "IndexError", key |-> ""]
    ELSE [err |-> "",
          key |-> self.prefix \o "/"
                  \o Join(PosFragments(self, call.pos, 1) \o KwFragments(self, call.kw, 1), "/")]

----------------------------------------------------------------------------
(* Calls                                                                   *)

Call(pos, kw) == [pos |-> pos, kw |-> kw]
KwArg(name, value) == [name |-> name, value |-> value]

\* sequences without repetition over a set of names
RECURSIVE Orders(_)
Orders(S) ==
    IF S = {} THEN {<<>>}
    ELSE UNION {{<<x>> \o o : o \in Orders(S \ {x})} : x \in S}

RECURSIVE KwSeqs(_)
\* every assignment of Values to a sequence of names
KwSeqs(names) ==
    IF Len(names) = 0 THEN {<<>>}
    ELSE {<<KwArg(names[1], v)>> \o r : v \in ValuesOf(names[1]), r \in KwSeqs(Tail(names))}

RECURSIVE PosSeqs(_)
\* every assignment of Values to a sequence of names, as positional arguments
PosSeqs(names) ==
    IF Len(names) = 0 THEN {<<>>}
    ELSE {<<v>> \o r : v \in ValuesOf(names[1]), r \in PosSeqs(Tail(names))}

\* Positional arguments a call passes beyond the named parameters, at most.
MaxVarargs == 1

\* the values collected by *args
ExtraSeqs(func) ==
    IF func.varargs
    THEN UNION {PosSeqs([i \in 1..e |-> "*"]) : e \in 0..MaxVarargs}
    ELSE {<<>>}

\* The calls func itself accepts: p positional arguments for its first p
\* parameters (and, all of them filled, further ones for *args), every other
\* parameter without a default by keyword, the others by keyword or omitted,
\* keywords in any order.
AcceptedCalls(func) ==
    LET n == Len(func.args)
        required == {func.args[i] : i \in 1..(n - func.ndefaults)} \cup Range(func.kwonlyargs)
        all == Range(func.args) \cup Range(func.kwonlyargs)
    IN  UNION {
          UNION {
            {Call(pos, kw) : pos \in {named \o extra :
                                        named \in PosSeqs(SubSeq(func.args, 1, p)),
                                        extra \in IF p = n THEN ExtraSeqs(func) ELSE {<<>>}},
                             kw \in UNION {KwSeqs(o) : o \in Orders(K)}}
            : K \in {K \in SUBSET (all \ {func.args[i] : i \in 1..p}) :
                       (required \ {func.args[i] : i \in 1..p}) \subseteq K}}
          : p \in 0..n}

Funcs == {func_f, func_g, func_h, func_k, func_co, func_u, func_v}

\* AcceptedCalls, tabulated
CallsOf == [func \in Funcs |-> AcceptedCalls(func)]

----------------------------------------------------------------------------
(* The key builder used directly: construct builders, call build_key       *)

KbSlots == {1, 2}
AppSlots == {1, 2}

Prefixes == {"", "v1"}
IncludeLists == {None, Tuple(<<>>), Tuple(<<"a", "b">>), Tuple(<<"o">>), Tuple(<<"a", "x">>)}

NoKb == [built |-> FALSE, prefix |-> "", func |-> func_f, cache_by_args |-> None,
         obj |-> DefaultKeyBuilder("", func_f, None, "ReprKeySerializer")]
NoApp == [made |-> FALSE, kb |-> 1, call |-> Call(<<>>, <<>>), out |-> [err |-> "", key |-> ""]]

\* DefaultKeyBuilder(prefix=..., func=..., cache_by_args=..., key_serializer=...)
NewKeyBuilder(prefix, func, cache_by_args, key_serializer) ==
    /\ ~kbs[1].built
    /\ kbs' = [kbs EXCEPT ![1] =
                 [built |-> TRUE, prefix |-> prefix, func |-> func,
                  cache_by_args |-> cache_by_args,
                  obj |-> DefaultKeyBuilder(prefix, func, cache_by_args, key_serializer)]]
    /\ UNCHANGED <<apps, wrapVars>>

\* A second builder, for another callable, with the first one's other arguments
NewKeyBuilderFor(func) ==
    /\ kbs[1].built /\ ~kbs[2].built
    /\ func # kbs[1].func
    /\ kbs' = [kbs EXCEPT ![2] =
                 [built |-> TRUE, prefix |-> kbs[1].prefix, func |-> func,
                  cache_by_args |-> kbs[1].cache_by_args,
                  obj |-> DefaultKeyBuilder(kbs[1].prefix, func, kbs[1].cache_by_args,
                                            kbs[1].obj.key_serializer)]]
    /\ UNCHANGED <<apps, wrapVars>>

\* kbs[b].build_key(*call.pos, **call.kw), for a call kbs[b].func accepts;
\* only an object whose construction did not raise exists to be called
BuildKey(j, b, call) ==
    /\ ~apps[j].made
    /\ \A i \in AppSlots : i < j => apps[i].made
    /\ kbs[b].built /\ kbs[b].obj.err = ""
    /\ j = 1 => b = 1
    /\ call \in CallsOf[kbs[b].func]
    /\ apps' = [apps EXCEPT ![j] =
                  [made |-> TRUE, kb |-> b, call |-> call, out |-> build_key(kbs[b].obj, call)]]
    /\ UNCHANGED <<kbs, wrapVars>>

----------------------------------------------------------------------------
(* The cache decorator (py_cashier/main.py)                                *)

Threads == {"t1", "t2"}
Wrappers == {"w1", "w2"}

\* Ticks of the clock the model runs for, and invocations of the underlying
\* callables it follows.
MaxTime == 3
MaxInv == 2

\* TTLMap(ttl=timedelta(minutes=1)): one tick of the clock is 30 seconds
TTL == 2

\* TTLMap.__getitem__: the value of an entry that has not expired, else KeyError
TTLMap_getitem(m, k, t) ==
    IF k \in DOMAIN m /\ t < m[k].exp
    THEN [found |-> TRUE, val |-> m[k].val]
    ELSE [found |-> FALSE, val |-> 0]

\* TTLMap.__setitem__: insert or overwrite, expiring ttl after now
TTLMap_setitem(m, k, v, t) ==
    [x \in DOMAIN m \cup {k} |-> IF x = k THEN [val |-> v, exp |-> t + TTL] ELSE m[x]]

EmptyMap == [k \in {} |-> [val |-> 0, exp |-> 0]]

\* the key_builder argument of cache(): None, or a KeyBuilder object
NoKeyBuilder == [given |-> FALSE, obj |-> DefaultKeyBuilder("", func_f, None, "ReprKeySerializer")]
KeyBuilderArg(obj) == [given |-> TRUE, obj |-> obj]

\* _wrapper(func, key_builder): the default builder when none is given
_wrapper(func, key_builder) ==
    [kind |-> "sync", func |-> func, passed |-> key_builder,
     key_builder |-> IF key_builder.given THEN key_builder.obj
                     ELSE DefaultKeyBuilder("", func, None, "ReprKeySerializer")]

\* _async_wrapper(func): takes no key builder and holds no map
_async_wrapper(func, key_builder) ==
    [kind |-> "async", func |-> func, passed |-> key_builder,
     key_builder |-> NoKeyBuilder.obj]

\* cache(func, key_builder=...)
cache(func, key_builder) ==
    IF func.coroutine THEN _async_wrapper(func, key_builder)
    ELSE _wrapper(func, key_builder)

NoCall == Call(<<>>, <<>>)
NoPrev == [ended |-> FALSE, target |-> "w1", args |-> NoCall, key |-> "",
           outcome |-> "none", val |-> 0, at |-> 0, invoked |-> FALSE]

\* CallWrapper with the key derivation's error swallowed: the call goes on to
\* the store under the empty key
CallWrapper_SwallowKeyError(t, w, call) ==
    /\ pc[t] = "idle"
    /\ call \in CallsOf[wrapped[w].func]
    /\ target' = [target EXCEPT ![t] = w]
    /\ args' = [args EXCEPT ![t] = call]
    /\ IF wrapped[w].kind = "async"
       THEN /\ pc' = [pc EXCEPT ![t] = "await"]
            /\ UNCHANGED <<key, outcome>>
       ELSE /\ pc' = [pc EXCEPT ![t] = "lookup"]
            /\ key' = [key EXCEPT ![t] = build_key(wrapped[w].key_builder, call).key]
            /\ UNCHANGED outcome
    /\ UNCHANGED <<keyVars, wrapped, mapa, now, res, invoked, at, prev, ninv, computed>>

\* wrapper(*args, **kwargs) is entered: line 120 derives the key; the async
\* wrapper goes straight to awaiting func
CallWrapper(t, w, call) ==
    /\ pc[t] = "idle"
    /\ call \in CallsOf[wrapped[w].func]
    /\ target' = [target EXCEPT ![t] = w]
    /\ args' = [args EXCEPT ![t] = call]
    /\ IF wrapped[w].kind = "async"
       THEN /\ pc' = [pc EXCEPT ![t] = "await"]
            /\ UNCHANGED <<key, outcome>>
       ELSE LET out == build_key(wrapped[w].key_builder, call)
            IN  IF out.err # ""
                THEN /\ pc' = [pc EXCEPT ![t] = "ret"]
                     /\ outcome' = [outcome EXCEPT ![t] = "raise"]
                     /\ UNCHANGED key
                ELSE /\ pc' = [pc EXCEPT ![t] = "lookup"]
                     /\ key' = [key EXCEPT ![t] = out.key]
                     /\ UNCHANGED outcome
    /\ UNCHANGED <<keyVars, wrapped, mapa, now, res, invoked, at, prev, ninv, computed>>

\* Lookup that waits while another caller is computing the same key
Lookup_WaitForOther(t) ==
    /\ \A u \in Threads \ {t} :
          ~(target[u] = target[t] /\ key[u] = key[t] /\ pc[u] \in {"miss", "store"})
    /\ pc[t] = "lookup"
    /\ LET r == TTLMap_getitem(mapa[target[t]], key[t], now)
       IN  IF r.found
           THEN /\ res' = [res EXCEPT ![t] = r.val]
                /\ at' = [at EXCEPT ![t] = mapa[target[t]][key[t]].exp - TTL]
                /\ outcome' = [outcome EXCEPT ![t] = "return"]
                /\ pc' = [pc EXCEPT ![t] = "ret"]
           ELSE /\ pc' = [pc EXCEPT ![t] = "miss"]
                /\ UNCHANGED <<res, at, outcome>>
    /\ UNCHANGED <<keyVars, wrapped, mapa, now, target, args, key, invoked, prev, ninv, computed>>

\* Lookup with a sliding expiry: a hit writes the entry back with a fresh TTL
Lookup_Refresh(t) ==
    /\ pc[t] = "lookup"
    /\ LET r == TTLMap_getitem(mapa[target[t]], key[t], now)
       IN  IF r.found
           THEN /\ res' = [res EXCEPT ![t] = r.val]
                /\ at' = [at EXCEPT ![t] = mapa[target[t]][key[t]].exp - TTL]
                /\ outcome' = [outcome EXCEPT ![t] = "return"]
                /\ pc' = [pc EXCEPT ![t] = "ret"]
                /\ mapa' = [mapa EXCEPT ![target[t]] = TTLMap_setitem(@, key[t], r.val, now)]
           ELSE /\ pc' = [pc EXCEPT ![t] = "miss"]
                /\ UNCHANGED <<res, at, outcome, mapa>>
    /\ UNCHANGED <<keyVars, wrapped, now, target, args, key, invoked, prev, ninv, computed>>

\* Lookup on a plain dict: an entry is returned however old it is
Lookup_NoExpiry(t) ==
    /\ pc[t] = "lookup"
    /\ IF key[t] \in DOMAIN mapa[target[t]]
       THEN /\ res' = [res EXCEPT ![t] = mapa[target[t]][key[t]].val]
            /\ at' = [at EXCEPT ![t] = mapa[target[t]][key[t]].exp - TTL]
            /\ outcome' = [outcome EXCEPT ![t] = "return"]
            /\ pc' = [pc EXCEPT ![t] = "ret"]
       ELSE /\ pc' = [pc EXCEPT ![t] = "miss"]
            /\ UNCHANGED <<res, at, outcome>>
    /\ UNCHANGED <<keyVars, wrapped, mapa, now, target, args, key, invoked, prev, ninv, computed>>

\* lines 122-128: res = mapa[key]; return res, or fall through on KeyError
Lookup(t) ==
    /\ pc[t] = "lookup"
    /\ LET r == TTLMap_getitem(mapa[target[t]], key[t], now)
       IN  IF r.found
           THEN /\ res' = [res EXCEPT ![t] = r.val]
                /\ at' = [at EXCEPT ![t] = mapa[target[t]][key[t]].exp - TTL]
                /\ outcome' = [outcome EXCEPT ![t] = "return"]
                /\ pc' = [pc EXCEPT ![t] = "ret"]
           ELSE /\ pc' = [pc EXCEPT ![t] = "miss"]
                /\ UNCHANGED <<res, at, outcome>>
    /\ UNCHANGED <<keyVars, wrapped, mapa, now, target, args, key, invoked, prev, ninv, computed>>

\* Invoke with the call wrapped in try/except that stores the failure
Invoke_CacheFailure(t, ok) ==
    /\ pc[t] = "miss"
    /\ ninv < MaxInv
    /\ ninv' = ninv + 1
    /\ computed' = IF ok THEN computed \cup {<<target[t], key[t], ninv + 1>>} ELSE computed
    /\ invoked' = [invoked EXCEPT ![t] = TRUE]
    /\ IF ok
       THEN /\ res' = [res EXCEPT ![t] = ninv + 1]
            /\ pc' = [pc EXCEPT ![t] = "store"]
            /\ UNCHANGED <<outcome, mapa>>
       ELSE /\ outcome' = [outcome EXCEPT ![t] = "raise"]
            /\ pc' = [pc EXCEPT ![t] = "ret"]
            /\ mapa' = [mapa EXCEPT ![target[t]] =
                          [x \in DOMAIN @ \cup {key[t]} |->
                             IF x = key[t] THEN [val |-> 0, exp |-> now + TTL] ELSE @[x]]]
            /\ UNCHANGED res
    /\ UNCHANGED <<keyVars, wrapped, now, target, args, key, at, prev>>

\* line 129: res = func(*args, **kwargs); func returns a value (here the serial
\* number of the invocation) or raises, and what it raises leaves wrapper()
Invoke(t, ok) ==
    /\ pc[t] = "miss"
    /\ ninv < MaxInv
    /\ ninv' = ninv + 1
    /\ computed' = IF ok THEN computed \cup {<<target[t], key[t], ninv + 1>>} ELSE computed
    /\ invoked' = [invoked EXCEPT ![t] = TRUE]
    /\ IF ok
       THEN /\ res' = [res EXCEPT ![t] = ninv + 1]
            /\ pc' = [pc EXCEPT ![t] = "store"]
            /\ UNCHANGED outcome
       ELSE /\ outcome' = [outcome EXCEPT ![t] = "raise"]
            /\ pc' = [pc EXCEPT ![t] = "ret"]
            /\ UNCHANGED res
    /\ UNCHANGED <<keyVars, wrapped, mapa, now, target, args, key, at, prev>>

\* Store under a key that was not derived from the call
Store_Unkeyed(t) ==
    /\ pc[t] = "store"
    /\ mapa' = [mapa EXCEPT ![target[t]] = TTLMap_setitem(@, "", res[t], now)]
    /\ at' = [at EXCEPT ![t] = now]
    /\ outcome' = [outcome EXCEPT ![t] = "return"]
    /\ pc' = [pc EXCEPT ![t] = "ret"]
    /\ UNCHANGED <<keyVars, wrapped, now, target, args, key, res, invoked, prev, ninv, computed>>

\* Store into one module-level map shared by every decorated callable
Store_Shared(t) ==
    /\ pc[t] = "store"
    /\ mapa' = [mapa EXCEPT !["w1"] = TTLMap_setitem(@, key[t], res[t], now)]
    /\ at' = [at EXCEPT ![t] = now]
    /\ outcome' = [outcome EXCEPT ![t] = "return"]
    /\ pc' = [pc EXCEPT ![t] = "ret"]
    /\ UNCHANGED <<keyVars, wrapped, now, target, args, key, res, invoked, prev, ninv, computed>>

\* Store without line 130
Store_Forget(t) ==
    /\ pc[t] = "store"
    /\ at' = [at EXCEPT ![t] = now]
    /\ outcome' = [outcome EXCEPT ![t] = "return"]
    /\ pc' = [pc EXCEPT ![t] = "ret"]
    /\ UNCHANGED <<keyVars, wrapped, mapa, now, target, args, key, res, invoked, prev, ninv, computed>>

\* line 130: mapa[key] = res
Store(t) ==
    /\ pc[t] = "store"
    /\ mapa' = [mapa EXCEPT ![target[t]] = TTLMap_setitem(@, key[t], res[t], now)]
    /\ at' = [at EXCEPT ![t] = now]
    /\ outcome' = [outcome EXCEPT ![t] = "return"]
    /\ pc' = [pc EXCEPT ![t] = "ret"]
    /\ UNCHANGED <<keyVars, wrapped, now, target, args, key, res, invoked, prev, ninv, computed>>

\* line 140: return await func(*args, **kwargs)
Await(t, ok) ==
    /\ pc[t] = "await"
    /\ ninv < MaxInv
    /\ ninv' = ninv + 1
    /\ computed' = IF ok THEN computed \cup {<<target[t], key[t], ninv + 1>>} ELSE computed
    /\ invoked' = [invoked EXCEPT ![t] = TRUE]
    /\ at' = [at EXCEPT ![t] = now]
    /\ outcome' = [outcome EXCEPT ![t] = IF ok THEN "return" ELSE "raise"]
    /\ res' = [res EXCEPT ![t] = IF ok THEN ninv + 1 ELSE res[t]]
    /\ pc' = [pc EXCEPT ![t] = "ret"]
    /\ UNCHANGED <<keyVars, wrapped, mapa, now, target, args, key, prev>>

\* lines 128, 132, 140: the call leaves wrapper(); the caller has its result
Return(t) ==
    /\ pc[t] = "ret"
    /\ prev' = [ended |-> TRUE, target |-> target[t], args |-> args[t], key |-> key[t],
                outcome |-> outcome[t], val |-> res[t], at |-> at[t],
                invoked |-> invoked[t]]
    /\ pc' = [pc EXCEPT ![t] = "idle"]
    /\ target' = [target EXCEPT ![t] = "w1"]
    /\ args' = [args EXCEPT ![t] = NoCall]
    /\ key' = [key EXCEPT ![t] = ""]
    /\ res' = [res EXCEPT ![t] = 0]
    /\ outcome' = [outcome EXCEPT ![t] = "none"]
    /\ invoked' = [invoked EXCEPT ![t] = FALSE]
    /\ at' = [at EXCEPT ![t] = 0]
    /\ UNCHANGED <<keyVars, wrapped, mapa, now, ninv, computed>>

\* time passes
Tick ==
    /\ now < MaxTime
    /\ now' = now + 1
    /\ UNCHANGED <<keyVars, wrapped, mapa, pc, target, args, key, res, outcome, invoked, at, prev, ninv, computed>>

----------------------------------------------------------------------------
(* Specifications                                                          *)

\* the calls made through the decorator
f_1_2 == Call(<<PyInt("1"), PyInt("2")>>, <<>>)
f_2_2 == Call(<<PyInt("2"), PyInt("2")>>, <<>>)
f_1_2_3 == Call(<<PyInt("1"), PyInt("2"), PyInt("3")>>, <<>>)
f_1_2_c5 == Call(<<PyInt("1"), PyInt("2")>>, <<KwArg("c", PyInt("5"))>>)
f_1_2_c3 == Call(<<PyInt("1"), PyInt("2")>>, <<KwArg("c", PyInt("3"))>>)
f_a1_b2 == Call(<<>>, <<KwArg("a", PyInt("1")), KwArg("b", PyInt("2"))>>)
f_a2_b2 == Call(<<>>, <<KwArg("a", PyInt("2")), KwArg("b", PyInt("2"))>>)

ConcCalls == {f_1_2, f_2_2}
SeqCalls == {f_1_2, f_1_2_3, f_1_2_c3, f_1_2_c5, f_a1_b2, f_a2_b2}

KeyIdle ==
    /\ kbs = [i \in KbSlots |-> NoKb]
    /\ apps = [j \in AppSlots |-> NoApp]

WrapIdle ==
    /\ mapa = [w \in Wrappers |-> EmptyMap]
    /\ now = 0
    /\ pc = [t \in Threads |-> "idle"]
    /\ target = [t \in Threads |-> "w1"]
    /\ args = [t \in Threads |-> NoCall]
    /\ key = [t \in Threads |-> ""]
    /\ res = [t \in Threads |-> 0]
    /\ outcome = [t \in Threads |-> "none"]
    /\ invoked = [t \in Threads |-> FALSE]
    /\ at = [t \in Threads |-> 0]
    /\ prev = NoPrev
    /\ ninv = 0
    /\ computed = {}

\* the key builder a caller passes to cache(key_builder=...)
CustomKb == KeyBuilderArg(DefaultKeyBuilder("", func_f, Tuple(<<"a", "b">>), "ReprKeySerializer"))

\* Threads calling one decorated synchronous callable concurrently.
Init ==
    /\ KeyIdle /\ WrapIdle
    /\ wrapped = [w \in Wrappers |->
                    IF w = "w1" THEN cache(func_f, NoKeyBuilder) ELSE cache(func_g, NoKeyBuilder)]

Step(t, w, calls) ==
    \/ \E call \in calls : CallWrapper(t, w, call)
    \/ Lookup(t)
    \/ \E ok \in BOOLEAN : Invoke(t, ok)
    \/ Store(t)
    \/ Return(t)

Next ==
    \/ \E t \in Threads : Step(t, "w1", ConcCalls)
    \/ Tick

Spec == Init /\ [][Next]_vars

\* One caller making its calls one after the other.
SeqInit ==
    /\ KeyIdle /\ WrapIdle
    /\ \E func \in {func_f, func_co} : \E kb \in {NoKeyBuilder, CustomKb} :
         wrapped = [w \in Wrappers |->
                      IF w = "w1" THEN cache(func, kb) ELSE cache(func_g, NoKeyBuilder)]

SeqNext ==
    \/ Step("t1", "w1", SeqCalls)
    \/ \E ok \in BOOLEAN : Await("t1", ok)
    \/ Tick

SeqSpec == SeqInit /\ [][SeqNext]_vars

\* Threads calling a decorated callable that declares *args.
v_1 == Call(<<PyInt("1")>>, <<>>)
v_1_1 == Call(<<PyInt("1"), PyInt("1")>>, <<>>)

VarCalls == {v_1, v_1_1}

VarInit ==
    /\ KeyIdle /\ WrapIdle
    /\ wrapped = [w \in Wrappers |->
                    IF w = "w1" THEN cache(func_v, NoKeyBuilder) ELSE cache(func_g, NoKeyBuilder)]

VarNext ==
    \/ \E t \in Threads : Step(t, "w1", VarCalls)
    \/ Tick

VarSpec == VarInit /\ [][VarNext]_vars

\* Threads calling two decorated callables, f and g of one source file.
IsoCalls == {f_1_2}

IsoNext ==
    \/ \E t \in Threads, w \in Wrappers : Step(t, w, IsoCalls)
    \/ Tick

IsoSpec == Init /\ [][IsoNext]_vars

\* Threads calling one decorated synchronous callable, every thread that is
\* inside wrapper() being scheduled again and every invocation of the callable
\* ending. A call starts only while the invocations the model follows (MaxInv)
\* cover it and every call already under way.
Budget ==
    ninv + Cardinality({u \in Threads : pc[u] \in {"lookup", "miss"}}) < MaxInv

\* what thread t does next inside wrapper()
Progress(t) ==
    \/ Lookup(t)
    \/ \E ok \in BOOLEAN : Invoke(t, ok)
    \/ Store(t)
    \/ Return(t)

LiveNext ==
    \/ \E t \in Threads : Budget /\ \E call \in ConcCalls : CallWrapper(t, "w1", call)
    \/ \E t \in Threads : Progress(t)
    \/ Tick

LiveSpec == Init /\ [][LiveNext]_vars /\ \A t \in Threads : WF_vars(Progress(t))

\* The key builder on its own.
KeyInit ==
    /\ KeyIdle /\ WrapIdle
    /\ wrapped = [w \in Wrappers |-> cache(func_f, NoKeyBuilder)]

KeyNext ==
    \/ \E prefix \in Prefixes, func \in {func_f, func_k, func_u, func_v}, cache_by_args \in IncludeLists,
          key_serializer \in Serializers :
            NewKeyBuilder(prefix, func, cache_by_args, key_serializer)
    \/ \E func \in {func_g, func_h} : NewKeyBuilderFor(func)
    \/ \E j \in AppSlots, b \in KbSlots : \E call \in CallsOf[kbs[b].func] : BuildKey(j, b, call)

KeySpec == KeyInit /\ [][KeyNext]_vars

----------------------------------------------------------------------------
(* Claims about the key builder (KeySpec)                                  *)

Unbound == [ty |-> "unbound", lit |-> ""]

\* the value a call passes for parameter p of func, positionally or by keyword
Bound(func, call, p) ==
    IF \E i \in 1..Len(call.pos) : i <= Len(func.args) /\ func.args[i] = p
    THEN call.pos[CHOOSE i \in 1..Len(call.pos) : func.args[i] = p]
    ELSE IF \E i \in 1..Len(call.kw) : call.kw[i].name = p
    THEN call.kw[CHOOSE i \in 1..Len(call.kw) : call.kw[i].name = p].value
    ELSE Unbound

Declared(func) == Range(func.args) \cup Range(func.kwonlyargs)

\* the parameters a builder was asked to include
IncludedOf(kb) ==
    IF kb.cache_by_args.given THEN Range(kb.cache_by_args.names) ELSE Declared(kb.func)

\* two build_key calls on one builder
SameBuilder(i, j) ==
    /\ i # j /\ apps[i].made /\ apps[j].made /\ apps[i].kb = apps[j].kb

\* the call's keyword arguments come in the order the parameters are declared
KwInDeclaredOrder(func, call) ==
    LET names == func.args \o func.kwonlyargs
        Pos(n) == CHOOSE i \in DOMAIN names : names[i] = n
    IN  \A x, y \in 1..Len(call.kw) : x < y => Pos(call.kw[x].name) < Pos(call.kw[y].name)

\* C6: for one DefaultKeyBuilder, two calls that pass the same values for all
\* included parameters derive the same key, however each value is passed
\* (positionally or by keyword); both calls write their keywords in declaration
\* order, so that only the positional/keyword choice differs.
C6_SameValuesSameKey ==
    \A i, j \in AppSlots :
        (/\ SameBuilder(i, j)
         /\ KwInDeclaredOrder(kbs[apps[i].kb].func, apps[i].call)
         /\ KwInDeclaredOrder(kbs[apps[j].kb].func, apps[j].call)
         /\ \A p \in IncludedOf(kbs[apps[i].kb]) :
               Bound(kbs[apps[i].kb].func, apps[i].call, p)
                   = Bound(kbs[apps[j].kb].func, apps[j].call, p))
        => apps[i].out = apps[j].out

\* C7: for one DefaultKeyBuilder with ReprKeySerializer, two calls that pass
\* different values for some included parameter derive different keys.
C7_DifferentValuesDifferentKey ==
    \A i, j \in AppSlots :
        (/\ SameBuilder(i, j)
         /\ kbs[apps[i].kb].obj.key_serializer = "ReprKeySerializer"
         /\ \E p \in IncludedOf(kbs[apps[i].kb]) :
               LET vi == Bound(kbs[apps[i].kb].func, apps[i].call, p)
                   vj == Bound(kbs[apps[j].kb].func, apps[j].call, p)
               IN  vi # Unbound /\ vj # Unbound /\ vi # vj)
        => apps[i].out.key # apps[j].out.key

\* C9: constructing a key builder raises the configuration error exactly when an
\* include list is given and is empty or names something that is not a declared
\* positional or keyword-only parameter; with no list every declared parameter
\* is included; and build_key is only ever called on a builder that was
\* constructed without error.
C9_ConstructionFailsIffBadIncludeList ==
    /\ \A b \in KbSlots : kbs[b].built =>
          /\ (kbs[b].obj.err = "ValueError")
                <=> (/\ kbs[b].cache_by_args.given
                     /\ \/ Len(kbs[b].cache_by_args.names) = 0
                        \/ \E n \in Range(kbs[b].cache_by_args.names) : n \notin Declared(kbs[b].func))
          /\ kbs[b].obj.err \in {"", "ValueError"}
          /\ (~kbs[b].cache_by_args.given) =>
                /\ kbs[b].obj.err = ""
                /\ kbs[b].obj.included_kwargs = Declared(kbs[b].func)
                /\ \A i \in DOMAIN kbs[b].func.args :
                      kbs[b].obj.included_args[i] = <<kbs[b].func.args[i], TRUE>>
    /\ \A j \in AppSlots : apps[j].made => kbs[apps[j].kb].obj.err = ""

\* a builder refused for an unknown name, and one refused for an empty list
C9_Witness ==
    /\ kbs[1].built /\ kbs[1].cache_by_args = Tuple(<<"o">>) /\ kbs[1].func = func_k
    /\ kbs[1].obj.err = ""
    /\ kbs[2].built /\ kbs[2].obj.err = "ValueError"

\* C10: two different callables given the same caller-supplied prefix derive
\* different keys for identical argument values.
C10_DistinctCallablesDistinctKeys ==
    \A i, j \in AppSlots :
        (/\ apps[i].made /\ apps[j].made
         /\ kbs[apps[i].kb].func # kbs[apps[j].kb].func
         /\ kbs[apps[i].kb].prefix = kbs[apps[j].kb].prefix
         /\ apps[i].call = apps[j].call)
        => apps[i].out.key # apps[j].out.key

----------------------------------------------------------------------------
\* the two calls pass the same positional arguments and the same keyword
\* arguments (names and values), the keywords written in a different order
SameKwReordered(c1, c2) ==
    /\ c1.pos = c2.pos
    /\ Range(c1.kw) = Range(c2.kw)
    /\ c1.kw # c2.kw

\* C11: for one DefaultKeyBuilder, two calls that supply the same keyword
\* arguments with the same values in different orders (build_key(a=1, b=2) and
\* build_key(b=2, a=1)) derive the same key.
C11_KeywordOrderCanonical ==
    \A i, j \in AppSlots :
        (/\ SameBuilder(i, j)
         /\ SameKwReordered(apps[i].call, apps[j].call)
         /\ \E x \in 1..Len(apps[i].call.kw) :
               apps[i].call.kw[x].name \in kbs[apps[i].kb].obj.included_kwargs)
        => apps[i].out = apps[j].out

u_1 == Call(<<PyInt("1")>>, <<>>)
u_s1 == Call(<<PyStr("1")>>, <<>>)

\* C12: for f(a) with every parameter included (no include list), f(1) and
\* f("1") derive different keys under ReprKeySerializer and the same key under
\* StrKeySerializer; and ReprKeySerializer is what a builder constructed without
\* a key_serializer uses.
C12_StrategyDependentCollision ==
    /\ \A i, j \in AppSlots :
          (/\ SameBuilder(i, j)
           /\ kbs[apps[i].kb].func = func_u /\ ~kbs[apps[i].kb].cache_by_args.given
           /\ apps[i].call = u_1 /\ apps[j].call = u_s1)
          => /\ apps[i].out.err = "" /\ apps[j].out.err = ""
             /\ kbs[apps[i].kb].obj.key_serializer = "ReprKeySerializer"
                   => apps[i].out.key # apps[j].out.key
             /\ kbs[apps[i].kb].obj.key_serializer = "StrKeySerializer"
                   => apps[i].out.key = apps[j].out.key
    /\ \A j \in AppSlots :
          (/\ apps[j].made /\ kbs[apps[j].kb].func = func_u
           /\ ~kbs[apps[j].kb].cache_by_args.given /\ kbs[apps[j].kb].prefix = ""
           /\ kbs[apps[j].kb].obj.key_serializer = "ReprKeySerializer")
          => apps[j].out = build_key(_wrapper(func_u, NoKeyBuilder).key_builder, apps[j].call)

\* f(1) and f("1") have collided under StrKeySerializer
C12_Witness ==
    /\ kbs[1].built /\ kbs[1].func = func_u /\ ~kbs[1].cache_by_args.given
    /\ kbs[1].obj.key_serializer = "StrKeySerializer"
    /\ apps[1].made /\ apps[1].call = u_1
    /\ apps[2].made /\ apps[2].call = u_s1 /\ apps[2].kb = 1
    /\ apps[1].out.key = apps[2].out.key /\ apps[1].out.key = "//app/svc.py/1"

\* f(1) and f("1") kept apart by ReprKeySerializer
C12_WitnessRepr ==
    /\ kbs[1].built /\ kbs[1].func = func_u /\ ~kbs[1].cache_by_args.given
    /\ kbs[1].obj.key_serializer = "ReprKeySerializer"
    /\ apps[1].made /\ apps[1].call = u_1 /\ apps[1].out.key = "//app/svc.py/1"
    /\ apps[2].made /\ apps[2].call = u_s1 /\ apps[2].kb = 1
    /\ apps[2].out.key = "//app/svc.py/'1'"

RECURSIVE KwValueFragments(_, _, _)
\* to_str(value) for each keyword argument whose name is included
KwValueFragments(self, kw, i) ==
    IF i > Len(kw) THEN <<>>
    ELSE (IF kw[i].name \in self.included_kwargs
          THEN <<to_str(self.key_serializer, kw[i].value)>> ELSE <<>>)
         \o KwValueFragments(self, kw, i + 1)

\* C13: build_key returns exactly the prefix, then the serialized value of each
\* positional argument whose declared parameter is included, in declaration
\* order, then the serialized value of each keyword argument whose name is
\* included, joined by "/": every fragment serializes a value, never a name.
C13_FragmentsAreSerializedValues ==
    \A j \in AppSlots :
        (apps[j].made /\ apps[j].out.err = "")
        => LET self == kbs[apps[j].kb].obj
               call == apps[j].call
           IN  apps[j].out.key =
                   self.prefix \o "/"
                   \o Join(PosFragments(self, call.pos, 1) \o KwValueFragments(self, call.kw, 1), "/")

\* C19: key derivation is total over the calls the callable accepts: for every
\* call the callable itself accepts, a callable declaring *args and called with
\* more positional arguments than it has named parameters included, build_key
\* returns a key and does not raise.
C19_KeyDerivationTotal ==
    \A j \in AppSlots : apps[j].made => apps[j].out.err = ""

(* Claims about the decorator                                              *)

\* thread t consults the store in this step
Looks(t) == pc[t] = "lookup" /\ pc'[t] # "lookup"

\* the call thread t is making repeats the last call that ended
Repeats(t) ==
    /\ prev.ended /\ prev.target = target[t] /\ prev.args = args[t]

\* the step answers t's call from the store with the value the last call returned
HitsPrev(t) ==
    /\ pc'[t] = "ret" /\ outcome'[t] = "return" /\ res'[t] = prev.val
    /\ ~invoked'[t] /\ ninv' = ninv /\ mapa' = mapa

\* C1: threads calling the synchronous wrapped callable concurrently with the
\* same key, the store holding no unexpired entry for it, invoke the underlying
\* callable once: no two of them have each invoked it and hold a result of
\* their own to store.
C1_SingleFlight ==
    \A t, u \in Threads :
        (t # u /\ target[t] = target[u] /\ key[t] = key[u] /\ pc[t] = "store")
        => pc[u] # "store"

\* C2: a synchronous wrapped callable called twice in a row with identical
\* arguments, the first call having returned normally and the second consulting
\* the store within the TTL of the value the first returned, is not invoked by
\* the second call, which returns that value.
C2_SecondCallWithinTtlHits ==
    [][\A t \in Threads :
          (/\ Looks(t) /\ Repeats(t)
           /\ wrapped[target[t]].kind = "sync"
           /\ prev.outcome = "return"
           /\ now < prev.at + TTL)
          => HitsPrev(t)]_vars

\* the second call has hit, a tick after the first stored its result
C2_Witness ==
    /\ pc["t1"] = "ret" /\ ~invoked["t1"] /\ outcome["t1"] = "return"
    /\ prev.ended /\ prev.invoked /\ prev.outcome = "return"
    /\ prev.args = args["t1"] /\ prev.val = res["t1"]
    /\ now > prev.at /\ now < prev.at + TTL

\* C3: an asynchronous wrapped callable awaited twice in a row with identical
\* arguments, the first having succeeded less than a TTL ago, invokes the
\* coroutine function at most once: the second call does not invoke it.
C3_AsyncSecondCallCached ==
    \A t \in Threads :
        (/\ pc[t] = "ret" /\ wrapped[target[t]].kind = "async"
         /\ Repeats(t) /\ prev.outcome = "return"
         /\ at[t] < prev.at + TTL)
        => ~invoked[t]

C5_FailureNotCached ==
    /\ [](\A t \in Threads :
            (pc[t] = "ret" /\ invoked[t] /\ outcome[t] = "raise"
             /\ wrapped[target[t]].kind = "sync")
            => ~TTLMap_getitem(mapa[target[t]], key[t], now).found)
    /\ [][\A t \in Threads :
            /\ (pc[t] = "miss" /\ pc'[t] = "ret") => (outcome'[t] = "raise" /\ mapa' = mapa)
            /\ (/\ Looks(t) /\ Repeats(t)
                /\ prev.outcome = "raise" /\ prev.invoked)
               => pc'[t] = "miss"]_vars

\* the call after a failed one has invoked the callable again
C5_Witness ==
    /\ pc["t1"] = "store" /\ invoked["t1"] /\ ninv = 2
    /\ prev.ended /\ prev.invoked /\ prev.outcome = "raise"
    /\ prev.args = args["t1"] /\ prev.key = key["t1"]

\* the values a call passes for a and b
SameAB(c1, c2) ==
    \A p \in {"a", "b"} : Bound(func_f, c1, p) = Bound(func_f, c2, p)

\* the two calls pass a and b the same way, and differ at most in c
DifferOnlyInC(c1, c2) ==
    /\ SameAB(c1, c2)
    /\ \A p \in {"a", "b"} :
         (\E i \in 1..Len(c1.kw) : c1.kw[i].name = p) <=> (\E i \in 1..Len(c2.kw) : c2.kw[i].name = p)

\* C8: f(a, b, c=1) cached by (a, b): calls that differ only in c (any value,
\* positional, keyword or omitted) derive the same key, and one made after
\* another that returned, within the TTL, returns that call's result without
\* invoking f.
C8_ExcludedArgumentIgnored ==
    /\ [](\A t \in Threads :
            (/\ wrapped[target[t]].passed = CustomKb /\ wrapped[target[t]].kind = "sync"
             /\ pc[t] \in {"lookup", "miss", "store", "ret"}
             /\ prev.ended /\ prev.target = target[t]
             /\ DifferOnlyInC(prev.args, args[t]))
            => key[t] = prev.key)
    /\ [][\A t \in Threads :
            (/\ Looks(t)
             /\ wrapped[target[t]].passed = CustomKb /\ wrapped[target[t]].kind = "sync"
             /\ prev.ended /\ prev.target = target[t]
             /\ DifferOnlyInC(prev.args, args[t])
             /\ prev.outcome = "return"
             /\ now < prev.at + TTL)
            => HitsPrev(t)]_vars

\* f(1, 2) computed, f(1, 2, 3) answered from the store, then f(1, 2, c=5) too
C8_Witness ==
    /\ wrapped["w1"].passed = CustomKb /\ wrapped["w1"].kind = "sync"
    /\ pc["t1"] = "ret" /\ args["t1"] = f_1_2_c5 /\ ~invoked["t1"] /\ res["t1"] = 1
    /\ prev.ended /\ prev.args = f_1_2_3 /\ ~prev.invoked /\ prev.val = 1
    /\ ninv = 1 /\ key["t1"] = prev.key

\* the store of t's target holds an unexpired entry for t's key
Fresh(t) == TTLMap_getitem(mapa[target[t]], key[t], now).found

\* C14: a cache hit short-circuits: when the store holds an unexpired entry for
\* the derived key, the call returns that entry's value without invoking the
\* underlying callable and without writing to the store (every entry's value
\* and expiry are unchanged), and nothing the call does afterwards before it
\* returns invokes the callable or writes to the store.
C14_HitShortCircuits ==
    [][\A t \in Threads :
          /\ (Looks(t) /\ Fresh(t))
             => /\ pc'[t] = "ret" /\ outcome'[t] = "return"
                /\ res'[t] = mapa[target[t]][key[t]].val
                /\ ~invoked'[t] /\ ninv' = ninv /\ mapa' = mapa
          /\ (pc[t] = "ret" /\ ~invoked[t] /\ pc'[t] # "ret")
             => /\ pc'[t] = "idle" /\ ninv' = ninv /\ mapa' = mapa
                /\ prev'.val = res[t] /\ prev'.outcome = outcome[t] /\ ~prev'.invoked]_vars

\* t2 has been answered from the entry t1 stored a tick earlier, which is as
\* t1 wrote it
C14_Witness ==
    /\ pc["t2"] = "ret" /\ outcome["t2"] = "return" /\ ~invoked["t2"] /\ res["t2"] = 1
    /\ ninv = 1 /\ now = 1
    /\ key["t2"] \in DOMAIN mapa["w1"]
    /\ mapa["w1"][key["t2"]] = [val |-> 1, exp |-> TTL]

\* C15: on a successful miss the result is written before it is delivered: when
\* a synchronous call that invoked the underlying callable is about to return
\* v, the store maps the call's key to v, expiring a TTL after it was written;
\* and a call for that key consulting the store after that return, within the
\* TTL, is a hit.
C15_StoredBeforeDelivered ==
    /\ [](\A t \in Threads :
            (/\ pc[t] = "ret" /\ invoked[t] /\ outcome[t] = "return"
             /\ wrapped[target[t]].kind = "sync")
            => /\ key[t] \in DOMAIN mapa[target[t]]
               /\ mapa[target[t]][key[t]] = [val |-> res[t], exp |-> at[t] + TTL])
    /\ [][\A t \in Threads :
            (/\ Looks(t)
             /\ prev.ended /\ prev.invoked /\ prev.outcome = "return"
             /\ wrapped[prev.target].kind = "sync"
             /\ prev.target = target[t] /\ prev.key = key[t]
             /\ now < prev.at + TTL)
            => (pc'[t] = "ret" /\ outcome'[t] = "return" /\ ~invoked'[t])]_vars

\* thread t enters wrapper() in this step with a call whose key derivation raises
KeyDerivationFails(t) ==
    /\ pc[t] = "idle" /\ pc'[t] # "idle"
    /\ wrapped[target'[t]].kind = "sync"
    /\ build_key(wrapped[target'[t]].key_builder, args'[t]).err # ""

\* C16: a key-derivation failure aborts the call before any store access: if
\* build_key raises for a call, the call raises without consulting the store,
\* without invoking the underlying callable and without writing to the store,
\* whose entries are all unchanged.
C16_KeyFailureAborts ==
    [][\A t \in Threads :
          /\ KeyDerivationFails(t)
             => /\ pc'[t] = "ret" /\ outcome'[t] = "raise"
                /\ ~invoked'[t] /\ ninv' = ninv /\ mapa' = mapa
          /\ (pc[t] = "ret" /\ outcome[t] = "raise" /\ ~invoked[t] /\ pc'[t] # "ret")
             => /\ pc'[t] = "idle" /\ ninv' = ninv /\ mapa' = mapa
                /\ prev'.outcome = "raise" /\ ~prev'.invoked]_vars

\* v(1) is stored; v(1, 1) has raised out of build_key and the entry is as it was
C16_Witness ==
    /\ pc["t1"] = "ret" /\ args["t1"] = v_1_1 /\ outcome["t1"] = "raise" /\ ~invoked["t1"]
    /\ prev.ended /\ prev.args = v_1 /\ prev.invoked /\ prev.outcome = "return"
    /\ prev.key \in DOMAIN mapa["w1"]
    /\ mapa["w1"][prev.key] = [val |-> prev.val, exp |-> prev.at + TTL]
    /\ ninv = 1

\* value v was returned by an invocation of the callable decorated as w
ComputedBy(w, v) == \E c \in computed : c[1] = w /\ c[3] = v

\* C17: stores are isolated per wrapped callable: each decorated callable has
\* its own store, which only calls to it write; every value held in it, and
\* every value a call to it returns, was computed by an invocation of that
\* callable, never by another decorated callable, also when both derive the
\* identical key string.
C17_StoresIsolated ==
    /\ [](/\ \A t \in Threads :
               (pc[t] = "ret" /\ outcome[t] = "return") => ComputedBy(target[t], res[t])
          /\ \A w \in Wrappers : \A k \in DOMAIN mapa[w] : ComputedBy(w, mapa[w][k].val))
    /\ [][\A w \in Wrappers :
            mapa'[w] # mapa[w] => \E t \in Threads : target[t] = w /\ pc[t] = "store"]_vars

\* f and g have each stored their own value under one and the same key string,
\* and a call to f has been answered from f's store
C17_Witness ==
    /\ \E k \in DOMAIN mapa["w1"] \cap DOMAIN mapa["w2"] :
          /\ mapa["w1"][k].val # mapa["w2"][k].val
          /\ key["t1"] = k /\ res["t1"] = mapa["w1"][k].val
    /\ pc["t1"] = "ret" /\ target["t1"] = "w1" /\ outcome["t1"] = "return" /\ ~invoked["t1"]

\* C18: cache coherence under any interleaving of calls to one synchronous
\* wrapped callable: the key a call works with is the one derived from its
\* arguments; every value the store holds under a key k, and every value a hit
\* returns for k, was returned by an earlier successful invocation of the
\* callable made for arguments deriving k. A failed invocation returns no value
\* and a key no call derived has no invocation, so neither is in the store.
C18_CacheCoherence ==
    /\ \A t \in Threads :
          pc[t] \in {"lookup", "miss", "store"}
          => key[t] = build_key(wrapped[target[t]].key_builder, args[t]).key
    /\ \A w \in Wrappers : \A k \in DOMAIN mapa[w] :
          <<w, k, mapa[w][k].val>> \in computed
    /\ \A t \in Threads :
          (pc[t] = "ret" /\ outcome[t] = "return" /\ wrapped[target[t]].kind = "sync")
          => <<target[t], key[t], res[t]>> \in computed

\* t1's invocation failed, t2's returned 2 and was stored, and t1 calling again
\* has been answered 2 from the store
C18_Witness ==
    /\ pc["t1"] = "ret" /\ outcome["t1"] = "return" /\ ~invoked["t1"] /\ res["t1"] = 2
    /\ ninv = 2 /\ computed = {<<"w1", key["t1"], 2>>}
    /\ key["t1"] \in DOMAIN mapa["w1"] /\ mapa["w1"][key["t1"]].val = 2
    /\ pc["t2"] = "ret" /\ invoked["t2"] /\ key["t2"] = key["t1"]

\* C20: no deadlock and no lost caller: under any interleaving of concurrent
\* calls to a synchronous wrapped callable (same or different keys), a call
\* that is under way can always take its next step whatever the other callers
\* are doing (no caller waits on another), and, every invocation of the
\* underlying callable ending, every call eventually returns or raises.
C20_EveryCallEnds ==
    /\ [](\A t \in Threads : pc[t] # "idle" => ENABLED Progress(t))
    /\ \A t \in Threads :
          (pc[t] # "idle") ~> (pc[t] = "ret" /\ outcome[t] \in {"return", "raise"})

\* both threads are inside wrapper() for the same key, one past its invocation
\* and the other before its own
C20_Witness ==
    /\ pc["t1"] = "store" /\ invoked["t1"]
    /\ pc["t2"] = "miss" /\ key["t2"] = key["t1"] /\ target["t2"] = target["t1"]

====
